---- MODULE Spec2Model ----
(***************************************************************************)
(* The MSP430 executor of embassy-executor (src/arch/msp430.rs): the run   *)
(* loop of Executor::run and the wake callback registered in               *)
(* Executor::new, which share the atomic flag SIGNAL_WORK_THREAD_MODE.     *)
(*                                                                         *)
(* The run loop is one sequential process whose position is pc; each       *)
(* atomic load and store of the flag is one step.  The wake callback runs  *)
(* in interrupt context (or from a task being polled) and is one atomic    *)
(* store; it may land between any two steps of the run loop, and           *)
(* invocations of it may nest.                                             *)
(***************************************************************************)
EXTENDS Naturals, Sequences, FiniteSets

\* Cap of the history counters and of the recorded call history: the
\* counters saturate there instead of growing.
MaxCount == 3

\* Most invocations of the wake callback in progress at once (nested
\* interrupts).
MaxNest == 2

VARIABLES
    SIGNAL_WORK_THREAD_MODE,  \* the global AtomicBool
    pc,                       \* position of Executor::run
    loaded,                   \* value the last load returned (the branch taken)
    inCs,                     \* the critical section is held
    signalling,               \* invocations of the wake callback entered, store not yet done
    obs                       \* history of the execution (observer only)

vars == <<SIGNAL_WORK_THREAD_MODE, pc, loaded, inCs, signalling, obs>>

\* Positions of Executor::run: before init, inside init, before and inside
\* self.inner.poll(), before critical_section::with, at the load, at the
\* store(false), at the idle instruction, and at the end of the closure.
RunPcs == {"init", "in_init", "poll", "polling", "enter_cs", "load", "store",
           "wait", "exit_cs"}

\* Saturating increment of a history counter.
Inc(n) == IF n < MaxCount THEN n + 1 ELSE n

\* Append to the recorded call history, keeping the last MaxCount entries.
Push(s, e) == IF Len(s) < MaxCount THEN Append(s, e) ELSE Append(Tail(s), e)

\* Variant: the callback stores false.
SignalValueCleared == FALSE

\* The value the wake callback stores.
SignalValue == TRUE

\* Variant: the run loop stores true again.
ClearValueSet == TRUE

\* The value the run loop stores after a load that returned true.
ClearValue == FALSE

\* What the load returns when the flag holds f.
LoadValue(f) == f

\* Variants: the store is executed whatever the load returned; the idle
\* branch is taken whatever the load returned.
AfterLoadAlwaysStore(v) == "store"
AfterLoadNeverStore(v) == "wait"

\* The branch of the if: the store when the load returned true, the idle
\* instruction otherwise.
AfterLoad(v) == IF v THEN "store" ELSE "wait"

\* Variant: the idle instruction halts the processor and nothing resumes it.
AfterWaitHalted == "wait"

\* The idle instruction is a nop: control falls through to the end of the
\* closure without waiting for anything.
AfterWait == "exit_cs"

\* Variant: the idle instruction clears the flag.
WaitFlagCleared(f) == FALSE

\* The flag after the idle instruction, when it held f before: the nop
\* touches no memory (options(nomem)).
WaitFlag(f) == f

\* Variants: the loop goes back to the critical section without polling;
\* it calls init again; it leaves the function.
AfterCsSkipPoll == "enter_cs"
AfterCsReinit == "init"
AfterCsReturn == "returned"

\* After the closure the loop starts over at self.inner.poll().
AfterCs == "poll"

\* State at the call of Executor::run on a freshly built executor.
Init ==
    /\ SIGNAL_WORK_THREAD_MODE = FALSE
    /\ pc = "init"
    /\ loaded = FALSE
    /\ inCs = FALSE
    /\ signalling = 0
    /\ obs = [ initCalls |-> 0,        \* calls of init
               polls |-> 0,            \* calls of self.inner.poll()
               checks |-> 0,           \* loads of the flag by the run loop
               waits |-> 0,            \* executions of the idle instruction
               sigs |-> 0,             \* calls of the wake callback
               pollsSinceWait |-> 0,   \* polls since the last idle instruction
               sigSinceWaiting |-> FALSE, \* a signal since the load that chose the idle branch
               sigSinceLoad |-> FALSE, \* a signal since the last load
               unmatched |-> FALSE,    \* a signal no completed consume returning true followed
               unobserved |-> FALSE,   \* a signal no load returning true followed
               unpolled |-> FALSE,     \* a signal no call of poll followed
               flagAtEntry |-> FALSE,  \* the flag when the critical section was entered
               sigsInCs |-> 0,         \* signals since the critical section was entered
               calls |-> <<>>,         \* consume calls started since the last signal
               sigRun |-> 0,           \* signals since the run loop last accessed the flag
               nest |-> 0,             \* deepest nesting of the callback since then
               cycleSigs |-> 0,        \* signals since the last load that returned false
               lastCycleSigs |-> 0,    \* signals between the last two loads that returned false
               iterEnters |-> 0,       \* entries of the critical section since the last poll
               iterStores |-> 0,       \* store(false) since the last poll
               iterWaits |-> 0,        \* idle instructions since the last poll
               owed |-> FALSE,         \* a signal outside the load-to-idle window, no poll since
               pollsSinceSig |-> 0,    \* polls since the last signal
               waitSinceSig |-> FALSE ] \* an idle instruction since the last signal

\* Variant: the callback cannot run while the critical section is held.
SignalMaskedInCs == ~inCs

\* The wake callback has no precondition: any context may call it at any
\* time, also while the run loop holds the critical section and while
\* another invocation is in progress.
SignalAllowed == TRUE

\* The wake callback is entered (|_| { ...), possibly nested inside or
\* concurrent with invocations that have not done their store yet.
SignalCall ==
    /\ SignalAllowed
    /\ signalling < MaxNest
    /\ signalling' = signalling + 1
    /\ obs' = [obs EXCEPT !.nest = IF signalling + 1 > @ THEN signalling + 1 ELSE @]
    /\ UNCHANGED <<SIGNAL_WORK_THREAD_MODE, pc, loaded, inCs>>

\* SIGNAL_WORK_THREAD_MODE.store(true, SeqCst), the one instruction of the
\* wake callback, and its return.
Signal ==
    /\ signalling > 0
    /\ signalling' = signalling - 1
    /\ SIGNAL_WORK_THREAD_MODE' = SignalValue
    /\ obs' = [obs EXCEPT !.sigs = Inc(@),
                          !.sigSinceWaiting = TRUE,
                          !.sigSinceLoad = TRUE,
                          !.unmatched = TRUE,
                          !.unobserved = TRUE,
                          !.unpolled = TRUE,
                          !.sigsInCs = Inc(@),
                          !.calls = <<>>,
                          !.sigRun = Inc(@),
                          !.cycleSigs = Inc(@),
                          !.owed = IF pc = "wait" THEN @ ELSE TRUE,
                          !.pollsSinceSig = 0,
                          !.waitSinceSig = FALSE]
    /\ UNCHANGED <<pc, loaded, inCs>>

\* init(self.inner.spawner()) is called ...
RunInitCall ==
    /\ pc = "init"
    /\ pc' = "in_init"
    /\ obs' = [obs EXCEPT !.initCalls = Inc(@)]
    /\ UNCHANGED <<SIGNAL_WORK_THREAD_MODE, loaded, inCs, signalling>>

\* ... and returns; the loop begins.
RunInitReturn ==
    /\ pc = "in_init"
    /\ pc' = "poll"
    /\ UNCHANGED <<SIGNAL_WORK_THREAD_MODE, loaded, inCs, obs, signalling>>

\* self.inner.poll() is called ...
PollCall ==
    /\ pc = "poll"
    /\ pc' = "polling"
    /\ obs' = [obs EXCEPT !.polls = Inc(@),
                          !.pollsSinceWait = Inc(@),
                          !.unpolled = FALSE,
                          !.iterEnters = 0,
                          !.iterStores = 0,
                          !.iterWaits = 0,
                          !.owed = FALSE,
                          !.pollsSinceSig = Inc(@)]
    /\ UNCHANGED <<SIGNAL_WORK_THREAD_MODE, loaded, inCs, signalling>>

\* ... and returns.  The tasks it ran may have called the wake callback:
\* those calls are Signal steps taken while pc = "polling".
PollReturn ==
    /\ pc = "polling"
    /\ pc' = "enter_cs"
    /\ UNCHANGED <<SIGNAL_WORK_THREAD_MODE, loaded, inCs, obs, signalling>>

\* critical_section::with(|_| { ... is entered.
EnterCs ==
    /\ pc = "enter_cs"
    /\ pc' = "load"
    /\ inCs' = TRUE
    /\ obs' = [obs EXCEPT !.flagAtEntry = SIGNAL_WORK_THREAD_MODE,
                          !.sigsInCs = 0,
                          !.iterEnters = Inc(@)]
    /\ UNCHANGED <<SIGNAL_WORK_THREAD_MODE, loaded, signalling>>

\* if SIGNAL_WORK_THREAD_MODE.load(SeqCst)
Load ==
    /\ pc = "load"
    /\ loaded' = LoadValue(SIGNAL_WORK_THREAD_MODE)
    /\ pc' = AfterLoad(loaded')
    /\ obs' = [obs EXCEPT !.checks = Inc(@),
                          !.sigSinceLoad = FALSE,
                          !.sigSinceWaiting = IF loaded' THEN @ ELSE FALSE,
                          !.unobserved = IF loaded' THEN FALSE ELSE @,
                          !.calls = Push(@, [before |-> SIGNAL_WORK_THREAD_MODE,
                                             ret |-> loaded',
                                             n |-> obs.sigRun]),
                          !.sigRun = 0,
                          !.nest = signalling,
                          !.cycleSigs = IF loaded' THEN @ ELSE 0,
                          !.lastCycleSigs = IF loaded' THEN @ ELSE obs.cycleSigs]
    /\ UNCHANGED <<SIGNAL_WORK_THREAD_MODE, inCs, signalling>>

\* SIGNAL_WORK_THREAD_MODE.store(false, SeqCst): the consume that loaded
\* true is complete.
Store ==
    /\ pc = "store"
    /\ SIGNAL_WORK_THREAD_MODE' = ClearValue
    /\ pc' = "exit_cs"
    /\ obs' = [obs EXCEPT !.unmatched = IF loaded THEN FALSE ELSE @,
                          !.sigRun = 0,
                          !.nest = signalling,
                          !.iterStores = Inc(@)]
    /\ UNCHANGED <<loaded, inCs, signalling>>

\* asm!("nop"): the idle instruction of the else branch.
WaitForInterrupt ==
    /\ pc = "wait"
    /\ pc' = AfterWait
    /\ SIGNAL_WORK_THREAD_MODE' = WaitFlag(SIGNAL_WORK_THREAD_MODE)
    /\ obs' = [obs EXCEPT !.waits = Inc(@),
                          !.pollsSinceWait = 0,
                          !.iterWaits = Inc(@),
                          !.waitSinceSig = TRUE]
    /\ UNCHANGED <<loaded, inCs, signalling>>

\* }); the closure returns, the critical section is released and the loop
\* goes round.
ExitCs ==
    /\ pc = "exit_cs"
    /\ pc' = AfterCs
    /\ inCs' = FALSE
    /\ UNCHANGED <<SIGNAL_WORK_THREAD_MODE, loaded, obs, signalling>>

\* One step of Executor::run.
RunStep ==
    \/ RunInitCall
    \/ RunInitReturn
    \/ PollCall
    \/ PollReturn
    \/ EnterCs
    \/ Load
    \/ Store
    \/ WaitForInterrupt
    \/ ExitCs

Next == RunStep \/ SignalCall \/ Signal

Spec == Init /\ [][Next]_vars

\* The processor keeps executing the run loop: no step of it blocks (the
\* idle instruction is a nop).  Nothing obliges an interrupt to occur.
FairSpec == Spec /\ WF_vars(RunStep)

(***************************************************************************)
(* Properties                                                              *)
(***************************************************************************)

\* C1 as stated: every signal() is followed by a consume_if_set() called
\* after it (its load comes after the signal's store) that returns true.
C1_Original == obs.unobserved ~> ~obs.unobserved

\* C1 amended: no wake is permanently lost.  While a signal() has not been
\* followed by the completion of a consume_if_set() that returned true, the
\* flag still holds it; and such a completion does follow every signal():
\* the store(false) of the call in flight when the signal's store lands
\* between its load and its store, the store(false) of a later call
\* otherwise.
C1_SignalMatched ==
    /\ [](obs.unmatched => SIGNAL_WORK_THREAD_MODE)
    /\ (obs.unmatched ~> ~obs.unmatched)

\* A signal landed between the load that returned true and the
\* store(false); that call has completed and no signal is left unmatched.
C1_Witness ==
    /\ pc = "exit_cs"
    /\ loaded
    /\ obs.sigSinceLoad
    /\ ~obs.unmatched
    /\ ~SIGNAL_WORK_THREAD_MODE

\* C2: no lost wakeup.  Every signal() is eventually followed by a call of
\* self.inner.poll(); the loop does not stay at the idle instruction.
C2_SignalPolled == obs.unpolled ~> (pc = "polling" /\ ~obs.unpolled)

\* The loop took the idle branch, a signal arrived after that load, and
\* poll has been called since.
C2_Witness ==
    /\ pc = "polling"
    /\ ~loaded
    /\ obs.waits > 0
    /\ obs.sigSinceWaiting
    /\ ~obs.unpolled

\* C3 as stated: when the loop is committed to the idle branch, a signal
\* that no load returning true has followed arrived after this iteration's
\* load.
C3_Original == (pc = "wait" /\ obs.unobserved) => obs.sigSinceLoad

\* C3 amended: when the loop is committed to the idle branch, a signal that
\* no completed consume_if_set() returning true has followed (none since the
\* last store(false)) arrived after this iteration's load.
C3_Amended == (pc = "wait" /\ obs.unmatched) => obs.sigSinceLoad

\* The loop is committed to the idle branch and a signal has arrived since
\* the load that returned false.
C3_Witness ==
    /\ pc = "wait"
    /\ obs.unmatched
    /\ obs.sigSinceLoad
    /\ SIGNAL_WORK_THREAD_MODE

\* C4: one signal() racing with one consume_if_set().  With exactly one
\* signal since the critical section was entered, the value the consume
\* returned and the flag are those of signal-then-consume (true, false) or
\* of consume-then-signal (the flag at entry, true).
C4_RaceSerializable ==
    (pc \in {"wait", "exit_cs"} /\ obs.sigsInCs = 1)
        => <<loaded, SIGNAL_WORK_THREAD_MODE>>
               \in {<<TRUE, FALSE>>, <<obs.flagAtEntry, TRUE>>}

\* The single signal landed between the load that returned true and the
\* store(false), which has overwritten it.
C4_Witness ==
    /\ pc = "exit_cs"
    /\ obs.sigsInCs = 1
    /\ obs.sigSinceLoad
    /\ loaded
    /\ ~SIGNAL_WORK_THREAD_MODE

\* C5: when the loop is about to execute the idle instruction again, poll
\* has been called since the previous execution of it.
C5_PollBetweenWaits ==
    (pc = "wait" /\ obs.waits > 0) => obs.pollsSinceWait >= 1

\* The loop is about to execute the idle instruction for a second time.
C5_Witness == pc = "wait" /\ obs.waits > 0 /\ obs.pollsSinceWait = 1

\* C6: the loop leaves the idle instruction only after an interrupt has
\* signalled since it committed to the idle branch.
C6_WaitNeedsInterrupt ==
    [][(pc = "wait" /\ pc' # "wait") => obs.sigSinceWaiting]_vars

\* C7: init is called exactly once, and it has returned before the first
\* poll and the first load; it is not called again.
C7_InitOnce ==
    /\ pc = "init" => obs.initCalls = 0
    /\ pc # "init" => obs.initCalls = 1
    /\ pc \in {"init", "in_init"} => obs.polls = 0 /\ obs.checks = 0

\* The loop has gone round at least twice after init.
C7_Witness == obs.initCalls = 1 /\ obs.polls >= 2 /\ obs.checks >= 2

\* C8: run never returns.  Every reachable position is a position of the
\* function body, and a further step of the run loop is possible there.
C8_NeverReturns == pc \in RunPcs /\ ENABLED <<RunStep>>_vars

\* No signal ever arrived and the loop is going round again after having
\* idled twice.
C8_Witness == obs.sigs = 0 /\ obs.waits >= 2 /\ pc = "poll"

\* C9: the flag starts false; it goes from true to false only in the run
\* loop's store(false), inside the critical section; the store of the
\* wake callback leaves it true.
C9_OnlyRunLoopClears ==
    /\ SIGNAL_WORK_THREAD_MODE = FALSE
    /\ [][ /\ (SIGNAL_WORK_THREAD_MODE /\ ~SIGNAL_WORK_THREAD_MODE')
                  => (pc = "store" /\ pc' = "exit_cs" /\ inCs)
           /\ (signalling' < signalling) => SIGNAL_WORK_THREAD_MODE' ]_vars

\* The run loop has cleared a flag that a signal had set.
C9_Witness ==
    /\ pc = "exit_cs"
    /\ loaded
    /\ obs.sigs > 0
    /\ ~SIGNAL_WORK_THREAD_MODE

\* C10: of two consecutive consume_if_set() calls with no signal since the
\* first began, the first returns the flag it found and the second returns
\* false (true then false, or false twice), and the flag is false after
\* the second.
C10_TwoConsumes ==
    /\ \A i \in 1..Len(obs.calls) :
          i < Len(obs.calls) =>
              /\ obs.calls[i].ret = obs.calls[i].before
              /\ ~obs.calls[i + 1].before
              /\ ~obs.calls[i + 1].ret
    /\ Len(obs.calls) >= 2 => ~SIGNAL_WORK_THREAD_MODE

\* Two calls without a signal, the first of which returned true.
C10_Witness ==
    /\ Len(obs.calls) >= 2
    /\ obs.calls[1].ret
    /\ ~obs.calls[2].ret

\* C11: the flag is a level, not a counter.  After one signal or several
\* with no access of the run loop to the flag in between, the flag is
\* true; the first consume_if_set() called after them returns true, the
\* flag is false once it has completed, and the call after it returns
\* false, however many signals there were.
C11_LevelSignal ==
    /\ obs.sigRun >= 1 => SIGNAL_WORK_THREAD_MODE
    /\ \A i \in 1..Len(obs.calls) :
          obs.calls[i].n >= 1 =>
              /\ obs.calls[i].ret
              /\ i < Len(obs.calls) => ~obs.calls[i + 1].ret
    /\ (Len(obs.calls) >= 1 /\ obs.calls[1].n >= 1 /\ pc # "store")
          => ~SIGNAL_WORK_THREAD_MODE

\* Two or more signals in a row, then a call that returned true and a call
\* that returned false.
C11_Witness ==
    /\ Len(obs.calls) >= 2
    /\ obs.calls[1].n >= 2
    /\ obs.calls[1].ret
    /\ ~obs.calls[2].ret

\* C12: the wake callback is reentrant and never blocks.  A further
\* invocation can be entered in every state (up to the nesting the model
\* allows), an invocation in progress can always do its store, and once
\* an invocation that ran nested with another has done its store the flag
\* is true.
C12_SignalReentrant ==
    /\ signalling < MaxNest => ENABLED SignalCall
    /\ signalling > 0 => ENABLED Signal
    /\ (obs.nest >= 2 /\ obs.sigRun >= 1) => SIGNAL_WORK_THREAD_MODE

\* Two nested invocations have both completed while the run loop held the
\* critical section, and the flag is true.
C12_Witness ==
    /\ inCs
    /\ signalling = 0
    /\ obs.nest >= 2
    /\ obs.sigRun >= 2
    /\ SIGNAL_WORK_THREAD_MODE

\* C13: Scenario A.  When exactly one signal fired between the load that
\* returned false and sent the loop to the idle instruction and the next
\* load that returns false, exactly two calls of poll lie between that
\* idle instruction and the next: the loop polled, found the flag set,
\* cleared it and polled again without idling in between.
C13_ScenarioA ==
    (pc = "wait" /\ obs.waits > 0 /\ obs.lastCycleSigs = 1)
        => obs.pollsSinceWait = 2

\* The loop is back at the idle instruction after a cycle with exactly one
\* signal and two polls.
C13_Witness ==
    /\ pc = "wait"
    /\ obs.waits > 0
    /\ obs.lastCycleSigs = 1
    /\ obs.pollsSinceWait = 2
    /\ ~SIGNAL_WORK_THREAD_MODE

\* C14: the shape of an iteration.  The critical section is held exactly
\* from its entry to the end of the closure; poll runs outside it and
\* before it; each iteration enters it once and, inside it, either stores
\* false (the load returned true) or executes the idle instruction (the
\* load returned false), never both and never neither.
C14_LoopShape ==
    /\ inCs <=> pc \in {"load", "store", "wait", "exit_cs"}
    /\ pc \in {"polling", "enter_cs"} => obs.iterEnters = 0
    /\ pc \in {"load", "store", "wait"}
          => obs.iterEnters = 1 /\ obs.iterStores = 0 /\ obs.iterWaits = 0
    /\ (pc = "exit_cs" \/ (pc = "poll" /\ obs.polls > 0))
          => /\ obs.iterEnters = 1
             /\ obs.iterStores + obs.iterWaits = 1
             /\ loaded <=> obs.iterStores = 1

\* An iteration that stored false is complete, after one that idled.
C14_Witness ==
    /\ pc = "poll"
    /\ obs.waits > 0
    /\ obs.iterStores = 1
    /\ obs.iterWaits = 0
    /\ ~inCs

\* C15: the idle instruction does not write the flag.  The step that
\* executes it leaves the flag as it was, and after a load that returned
\* false the flag is true exactly when a signal has occurred since.
C15_WaitLeavesFlag ==
    /\ []((~loaded /\ obs.checks > 0)
            => (SIGNAL_WORK_THREAD_MODE <=> obs.sigSinceWaiting))
    /\ [][(pc = "wait" /\ pc' # "wait")
            => SIGNAL_WORK_THREAD_MODE' = SIGNAL_WORK_THREAD_MODE]_vars

\* The loop is back at poll after idling; a signal occurred in between and
\* the flag is true.
C15_Witness ==
    /\ pc = "poll"
    /\ ~loaded
    /\ obs.waits > 0
    /\ obs.sigSinceWaiting
    /\ SIGNAL_WORK_THREAD_MODE

\* C16: no wake is lost at the level of work.  When the loop is about to
\* execute the idle instruction, every signal that occurred outside the
\* window between the load that returned false and the idle instruction
\* has been followed by a call of poll.
C16_WorkNotLost == pc = "wait" => ~obs.owed

\* A signal landed between the load that returned true and the
\* store(false), which overwrote it, and poll has been called since.
C16_Witness ==
    /\ pc = "polling"
    /\ loaded
    /\ obs.sigSinceLoad
    /\ ~SIGNAL_WORK_THREAD_MODE
    /\ ~obs.owed

\* C17: quiescence.  After the last signal the loop calls poll at most
\* twice before it executes the idle instruction; an iteration whose load
\* found the flag false, with no signal since, has executed the idle
\* instruction when it leaves the critical section; and either signals
\* keep arriving or the loop keeps coming back to the idle instruction.
C17_Quiescence ==
    /\ [](~obs.waitSinceSig => obs.pollsSinceSig <= 2)
    /\ []((/\ pc = "exit_cs"
           /\ Len(obs.calls) >= 1
           /\ ~obs.calls[Len(obs.calls)].before) => obs.iterWaits = 1)
    /\ \/ []<>(pc = "wait")
       \/ []<>(obs.pollsSinceSig = 0 /\ ~obs.waitSinceSig /\ obs.sigs > 0)

\* Two polls were needed after the last signal before the loop came to the
\* idle instruction.
C17_Witness ==
    /\ pc = "wait"
    /\ obs.sigs > 0
    /\ ~obs.waitSinceSig
    /\ obs.pollsSinceSig = 2

====
